---- MODULE Spec2Model ----
(***************************************************************************)
(* S3GlacierClient (s3_glacier.py): the paginated lister, the per-object   *)
(* restore requester, the bulk restore orchestrator, the restore status    *)
(* checker and the completion poller, run against a nondeterministic       *)
(* object store.  One behaviour is one call of one operation of a client.  *)
(***************************************************************************)
EXTENDS Integers, Sequences, FiniteSets, TLC

(* ---------------------------- bounds ----------------------------------- *)
\* objects in the bucket under the prefix; the k-th object the store returns
\* has key k
MaxObjs == 3
\* list responses the store needs at most to serve the whole bucket
MaxPages == 2
\* consecutive not-restored answers the poller is followed through per object
MaxPolls == 2

Keys == 1..MaxObjs

(* ------------------------- values of the store ------------------------- *)
\* Python's None: what dict.get returns for a key that is absent
NoneVal == "None"

\* values of the x-amz-restore header of a head_object response
HdrOngoing == "ongoing-request=\"true\""
HdrRestored == "ongoing-request=\"false\", expiry-date=\"Fri, 21 Dec 2012 00:00:00 GMT\""
HdrValues == {NoneVal, HdrOngoing, HdrRestored}

\* HTTP status codes of a restore response that does not raise
StatusCodes == {200, 400, 403}
\* error codes of a raised ClientError
ErrorCodes == {"RestoreAlreadyInProgress", "AccessDenied", "NoSuchKey"}

\* what s3_client.restore_object does: return a response or raise ClientError
\* (status: ResponseMetadata.HTTPStatusCode; code: Error.Code)
StoreRestoreOutcomes ==
    [kind : {"response"}, status : StatusCodes, code : {NoneVal}]
    \cup [kind : {"ClientError"}, status : {0}, code : ErrorCodes]

\* no response at all
NoPayload == [kind |-> NoneVal, status |-> 0, code |-> NoneVal]

\* values of the IsTruncated field of a list response
TruncValues == {"True", "False", NoneVal}

\* x-amz-restore values that are neither absent nor exactly
\* ongoing-request="true"
OtherHdrValues == {"ongoing-request=\"false\"", "ongoing-request=\"TRUE\""}

\* the commands of the CLI
Operations == {"restore_single_object", "restore_objects", "check_restore_status"}
Commands == Operations \cup {"is_object_restored"}

\* -b and -p of the command line
BucketName == "my-bucket"
PrefixName == "archive/"

(* --------------------------- Python values ----------------------------- *)
\* the items of {}
EmptyItems == [k \in {} |-> 0]

\* None, a bool, a dict (its items: a function of its top-level keys), and
\* the TypeError that unpacking something else than a mapping raises
PyNone == [type |-> "NoneType", truthy |-> FALSE, items |-> EmptyItems]
PyBool(b) == [type |-> "bool", truthy |-> b, items |-> EmptyItems]
PyDict(f) == [type |-> "dict", truthy |-> DOMAIN f # {}, items |-> f]
PyTypeError == [type |-> "TypeError", truthy |-> FALSE, items |-> EmptyItems]

\* a or b
Or(a, b) == IF a.truthy THEN a ELSE b

\* a merge in which the left side wins
UnpackLeftWins(a, b) ==
    IF a.type = "dict" /\ b.type = "dict"
    THEN PyDict([k \in DOMAIN a.items \cup DOMAIN b.items |->
                    IF k \in DOMAIN a.items THEN a.items[k] ELSE b.items[k]])
    ELSE PyTypeError

\* {**a, **b}
Unpack(a, b) ==
    IF a.type = "dict" /\ b.type = "dict"
    THEN PyDict([k \in DOMAIN a.items \cup DOMAIN b.items |->
                    IF k \in DOMAIN b.items THEN b.items[k] ELSE a.items[k]])
    ELSE PyTypeError

\* {**self.default_restore_params, **(restore_params or {})}
merged_params(default_restore_params, restore_params) ==
    Unpack(default_restore_params, Or(restore_params, PyDict(EmptyItems)))

\* restore_params = {"Days": days, "GlacierJobParameters": {"Tier": tier}}
CliRestoreParams(days, tier) ==
    PyDict([Days |-> days, GlacierJobParameters |-> [Tier |-> tier]])

\* -d and -t of the restore commands
CliOptions == {[days |-> 3, tier |-> "Standard"], [days |-> 7, tier |-> "Bulk"]}

\* restore parameters a caller of the class works with
LibDefaultParams == PyDict([Days |-> 7, GlacierJobParameters |-> [Tier |-> "Bulk"]])
LibRestoreParams ==
    {PyNone,
     PyDict([Days |-> 3]),
     PyDict([GlacierJobParameters |-> EmptyItems, Description |-> "d"])}

(* ------------------------------ __init__ ------------------------------- *)
\* the fields of a client built with these arguments; console_handler: a
\* StreamHandler was added to the logger
S3GlacierClient(bucket, prefix, default_restore_params, verbose, progress_logger) ==
    [bucket |-> bucket,
     prefix |-> prefix,
     default_restore_params |-> Or(default_restore_params, PyDict(EmptyItems)),
     progress_logger |-> IF progress_logger # NoneVal
                         THEN progress_logger
                         ELSE "S3GlacierClient",
     console_handler |-> progress_logger = NoneVal /\ verbose]

\* the arguments cli() builds its client with: bucket, prefix and `not quiet`
\* go in by position, verbose and progress_logger keep their defaults
cli(bucket, prefix, quiet) ==
    [built |-> "cli", quiet |-> quiet, bucket |-> bucket, prefix |-> prefix,
     default_restore_params |-> PyBool(~quiet),
     verbose |-> TRUE, progress_logger |-> NoneVal]

\* the arguments of a caller that builds the client itself
Direct(default_restore_params, verbose, progress_logger) ==
    [built |-> "direct", quiet |-> FALSE,
     bucket |-> BucketName, prefix |-> PrefixName,
     default_restore_params |-> default_restore_params,
     verbose |-> verbose, progress_logger |-> progress_logger]

(* ------------------------------ state ---------------------------------- *)
VARIABLES
    op,          \* the operation this run calls
    pc,          \* position of the caller
    hdr,         \* store: x-amz-restore header of each object
    kwargs,      \* generator: kwargs (ContinuationToken 0: no such key)
    buf,         \* generator: what "yield from" has still to yield
    more,        \* generator: FALSE once a response was not truncated
    listReqs,    \* history: the arguments of every list request
    responses,   \* history: every list response
    yielded,     \* history: every object the generator yielded
    cur,         \* key of the loop variable obj (0: none yet)
    restoreReqs, \* history: key of every restore request sent to the store
    storeSaid,   \* history: what the store did on the restore request of a key
    signal,      \* history: how restore_object ended for a key
    results,     \* restore_objects_from_bucket: the three buckets
    logs,        \* lines handed to the progress logger
    lastCheck,   \* poller: key and answer of the latest status check
    nChecks,     \* poller: status checks per key
    nNot,        \* poller: not-restored answers per key
    nSleeps,     \* poller: sleeps per key
    raised,      \* exception that left the operation (NoneVal: none)
    ctor,        \* the arguments the client was built with
    self,        \* the fields of the client
    given,       \* the restore_params argument of the call
    restore_params, \* restore_objects_from_bucket: its local restore_params
    sentParams,  \* history: RestoreRequest of every restore request
    echoed       \* lines written with click.echo

vars == <<op, pc, hdr, kwargs, buf, more, listReqs, responses, yielded,
          cur, restoreReqs, storeSaid, signal, results, logs, lastCheck,
          nChecks, nNot, nSleeps, raised, ctor, self, given, restore_params,
          sentParams, echoed>>

genVars == <<kwargs, buf, more, listReqs, responses, yielded>>
restoreVars == <<restoreReqs, storeSaid, signal, results>>
pollVars == <<lastCheck, nChecks, nNot, nSleeps>>
clientVars == <<ctor, self, given>>

(* ----------------------------- helpers --------------------------------- *)
RECURSIVE Concat(_)
Concat(ss) == IF ss = <<>> THEN <<>> ELSE Head(ss) \o Concat(Tail(ss))

Range(s) == {s[i] : i \in 1..Len(s)}

\* a lister that goes on unless IsTruncated is present and false
TruthyUnlessFalse(v) == v # "False"

\* Python truthiness of response.get("IsTruncated")
Truthy(v) == v = "True"

\* response.get("Contents", []): S3 leaves Contents out of an empty page
GetContents(r) == IF r.HasContents THEN r.Contents ELSE <<>>

\* the object records with keys a+1 .. a+c, in the store's order
Objects(a, c) == [i \in 1..c |-> [Key |-> a + i]]

\* objects the store has handed out up to and including its response n
RECURSIVE Served(_, _)
Served(rs, n) == IF n = 0 THEN 0 ELSE Len(GetContents(rs[n])) + Served(rs, n - 1)

\* where the store resumes the listing for a request carrying token t: the
\* NextContinuationToken of its response n is n, and 0 stands for a request
\* without ContinuationToken
StartOf(rs, t) == Served(rs, t)

(* ------------------------- exception classes --------------------------- *)
\* class RestoreInProgressException(RestoreException)
IsInstance(exc, cls) ==
    \/ exc = cls
    \/ exc = "RestoreInProgressException" /\ cls = "RestoreException"

(* --------------------------- restore_object ---------------------------- *)
\* restore_object with the test on the error code the other way round
restore_object_code_eq(key, said) ==
    IF said.kind = "response"
    THEN IF said.status > 400
         THEN [exc |-> "UnboundLocalError", msg |-> "e", response |-> NoPayload,
               logged |-> <<>>]
         ELSE [exc |-> NoneVal, msg |-> NoneVal, response |-> NoPayload,
               logged |-> << [line |-> "SUCCESS Restored object", key |-> key] >>]
    ELSE IF said.code = "RestoreAlreadyInProgress"
         THEN [exc |-> "RestoreInProgressException",
               msg |-> "Restore in progress", response |-> said,
               logged |-> << [line |-> "FAILED object restore in progress",
                              key |-> key] >>]
         ELSE [exc |-> "RestoreException",
               msg |-> "Exception occurred while restoring. Check e.response",
               response |-> said,
               logged |-> << [line |-> "FAILED object restore failed",
                              key |-> key] >>]

\* restore_object that takes the status 400 for a failure as well
restore_object_status_ge(key, said) ==
    IF said.kind = "response"
    THEN IF said.status >= 400
         THEN [exc |-> "UnboundLocalError", msg |-> "e", response |-> NoPayload,
               logged |-> <<>>]
         ELSE [exc |-> NoneVal, msg |-> NoneVal, response |-> NoPayload,
               logged |-> << [line |-> "SUCCESS Restored object", key |-> key] >>]
    ELSE IF said.code # "RestoreAlreadyInProgress"
         THEN [exc |-> "RestoreInProgressException",
               msg |-> "Restore in progress", response |-> said,
               logged |-> << [line |-> "FAILED object restore in progress",
                              key |-> key] >>]
         ELSE [exc |-> "RestoreException",
               msg |-> "Exception occurred while restoring. Check e.response",
               response |-> said,
               logged |-> << [line |-> "FAILED object restore failed",
                              key |-> key] >>]

\* how restore_object(key) ends when the store answers `said`: the exception
\* it raises (NoneVal: it returns), the exception's message and payload, and
\* the lines it logged before
restore_object(key, said) ==
    IF said.kind = "response"
    THEN IF said.status > 400
         THEN \* the arguments of self.info read e, a local that is bound only
              \* inside the except clause: UnboundLocalError, before the
              \* line is logged and before RestoreException is built
              [exc |-> "UnboundLocalError", msg |-> "e", response |-> NoPayload,
               logged |-> <<>>]
         ELSE [exc |-> NoneVal, msg |-> NoneVal, response |-> NoPayload,
               logged |-> << [line |-> "SUCCESS Restored object", key |-> key] >>]
    ELSE IF said.code # "RestoreAlreadyInProgress"
         THEN [exc |-> "RestoreInProgressException",
               msg |-> "Restore in progress", response |-> said,
               logged |-> << [line |-> "FAILED object restore in progress",
                              key |-> key] >>]
         ELSE [exc |-> "RestoreException",
               msg |-> "Exception occurred while restoring. Check e.response",
               response |-> said,
               logged |-> << [line |-> "FAILED object restore failed",
                              key |-> key] >>]

\* the except clauses with the base class first
BucketOfBaseFirst(exc) ==
    IF exc = NoneVal THEN "successful"
    ELSE IF IsInstance(exc, "RestoreException") THEN "error"
    ELSE IF IsInstance(exc, "RestoreInProgressException") THEN "restore_in_progress"
    ELSE NoneVal

\* the except clauses of restore_objects_from_bucket, in their order: the
\* bucket an outcome lands in, NoneVal when no clause catches it
BucketOf(exc) ==
    IF exc = NoneVal THEN "successful"
    ELSE IF IsInstance(exc, "RestoreInProgressException") THEN "restore_in_progress"
    ELSE IF IsInstance(exc, "RestoreException") THEN "error"
    ELSE NoneVal

(* -------------------------- is_object_restored ------------------------- *)
\* a status checker that wants the header to be there
is_object_restored_header_required(status) == status # HdrOngoing /\ status # NoneVal

\* status != 'ongoing-request="true"'
is_object_restored(status) == status # HdrOngoing

\* a poller that gives up on an object after one status check
AfterCheckGiveUp(restored) == "iter"

\* a poller that sleeps after every status check
AfterCheckAlwaysSleep(restored) == "sleep"

\* are_objects_restored, after a status check: leave the while loop or sleep
AfterCheck(restored) == IF restored THEN "iter" ELSE "sleep"

(* ------------------------------ Init ----------------------------------- *)
NoSignal == [exc |-> "not called", msg |-> NoneVal, response |-> NoPayload, logged |-> <<>>]

\* how the client comes to be, what is called on it and with which
\* restore_params:
\*  - a command of the CLI, with either value of -q (the poller, which reads
\*    none of the fields -q may touch, under the default of -q), the restore
\*    commands with their -d and -t;
\*  - a caller that builds the client itself and calls restore_object or
\*    restore_objects_from_bucket with its own parameters;
\*  - a caller that only builds the client ("construct"), with any arguments.
Calls ==
    {[op |-> o, ctor |-> cli(BucketName, PrefixName, q),
      given |-> IF o \in {"restore_single_object", "restore_objects"}
                THEN CliRestoreParams(c.days, c.tier) ELSE PyNone] :
        o \in Commands, q \in BOOLEAN, c \in CliOptions}
    \cup
    {[op |-> o, ctor |-> Direct(LibDefaultParams, TRUE, NoneVal), given |-> g] :
        o \in {"restore_single_object", "restore_objects"}, g \in LibRestoreParams}
    \cup
    {[op |-> "construct", ctor |-> Direct(d, v, l), given |-> PyNone] :
        d \in {PyNone, PyDict(EmptyItems), LibDefaultParams},
        v \in BOOLEAN, l \in {NoneVal, "caller's logger"}}

Init ==
    /\ \E c \in Calls :
         /\ op = c.op /\ ctor = c.ctor /\ given = c.given
         /\ (c.op = "check_restore_status" => c.ctor.quiet)
    /\ self = S3GlacierClient(ctor.bucket, ctor.prefix, ctor.default_restore_params,
                              ctor.verbose, ctor.progress_logger)
    /\ pc = "start"
    \* only the status checks read the header; objects being restored from
    \* the archive carry none yet
    /\ hdr \in [Keys -> HdrValues \cup OtherHdrValues]
    /\ (op = "check_restore_status" => hdr \in [Keys -> HdrValues])
    /\ (op \notin {"check_restore_status", "is_object_restored"}
          => hdr = [k \in Keys |-> NoneVal])
    /\ kwargs = [Bucket |-> NoneVal, Prefix |-> NoneVal, ContinuationToken |-> 0]
    /\ buf = <<>>
    /\ more = TRUE
    /\ listReqs = <<>>
    /\ responses = <<>>
    /\ yielded = <<>>
    /\ cur = 0
    /\ restoreReqs = <<>>
    /\ storeSaid = [k \in Keys |-> NoPayload]
    /\ signal = [k \in Keys |-> NoSignal]
    /\ results = [successful |-> <<>>, restore_in_progress |-> <<>>, error |-> <<>>]
    /\ logs = <<>>
    /\ lastCheck = [key |-> 0, status |-> NoneVal, restored |-> FALSE]
    /\ nChecks = [k \in Keys |-> 0]
    /\ nNot = [k \in Keys |-> 0]
    /\ nSleeps = [k \in Keys |-> 0]
    /\ raised = NoneVal
    /\ restore_params = PyNone
    /\ sentParams = <<>>
    /\ echoed = <<>>

(* -------------------- list_all_objects_from_bucket --------------------- *)
\* kwargs = {"Bucket": self.bucket, "Prefix": self.prefix}
FirstKwargs(client) ==
    [Bucket |-> client.bucket, Prefix |-> client.prefix, ContinuationToken |-> 0]

\* a lister that never passes the token on
WithTokenDropped(kw, token) == kw

\* kwargs = {**kwargs, "ContinuationToken": continuation_token}
WithToken(kw, token) == [kw EXCEPT !.ContinuationToken = token]

\* a lister that asks for the next page while the page before is still being
\* handed out
ResumesWithRequestEager(b, m) == m

\* the generator, when resumed, goes to list_objects_v2: "yield from" has
\* run dry and no response has yet come without IsTruncated
ResumesWithRequest(b, m) == b = <<>> /\ m

\* a lister that tries the request again when the store raises
OnListErrorRetry == "iter"

\* where an exception of list_objects_v2 leaves the caller of the generator:
\* neither the generator nor its callers have a handler for it
OnListError == "raised"

\* the generator is resumed with nothing left to yield after a truncated
\* response (or before the first request): one list_objects_v2 call
ListPage ==
    /\ op \in {"restore_objects", "check_restore_status"}
    /\ pc = "iter" /\ ResumesWithRequest(buf, more)
    /\ LET kw == IF listReqs = <<>> THEN FirstKwargs(self) ELSE kwargs
           from == StartOf(responses, kw.ContinuationToken)
       IN
       /\ listReqs' = Append(listReqs, kw)
       /\ \/ \* the store raises: nothing catches it on the way to the caller
             /\ raised' = IF OnListError = "raised" THEN "ClientError" ELSE raised
             /\ pc' = OnListError
             /\ kwargs' = kw
             /\ UNCHANGED <<buf, more, responses>>
          \/ \E c \in 0..(MaxObjs - from), has \in BOOLEAN, t \in TruncValues :
               LET n == Len(responses) + 1
                   response == [HasContents |-> has,
                                Contents |-> IF has THEN Objects(from, c) ELSE <<>>,
                                IsTruncated |-> t,
                                NextContinuationToken |-> IF t = "True" THEN n ELSE 0]
               IN  /\ (~has => c = 0)
                   \* the listing is finite
                   /\ (n >= MaxPages => t # "True")
                   /\ responses' = Append(responses, response)
                   /\ buf' = GetContents(response)
                   /\ more' = Truthy(response.IsTruncated)
                   /\ kwargs' = IF Truthy(response.IsTruncated)
                                THEN WithToken(kw, response.NextContinuationToken)
                                ELSE kw
                   /\ UNCHANGED <<pc, raised>>
    /\ UNCHANGED <<op, hdr, yielded, cur, logs, restore_params, sentParams, echoed>>
    /\ UNCHANGED restoreVars
    /\ UNCHANGED pollVars
    /\ UNCHANGED clientVars

\* the generator yields the next object of the page to the for loop
NextObject ==
    /\ pc = "iter" /\ buf # <<>>
    /\ cur' = Head(buf).Key
    /\ yielded' = Append(yielded, Head(buf))
    /\ buf' = Tail(buf)
    /\ pc' = "body"
    /\ UNCHANGED <<op, hdr, kwargs, more, listReqs, responses, logs, raised,
                   restore_params, sentParams, echoed>>
    /\ UNCHANGED restoreVars
    /\ UNCHANGED pollVars
    /\ UNCHANGED clientVars

\* the generator breaks out of its loop: the for loop of the caller ends, and
\* the caller returns (results, or after self.debug("Done!"))
Exhausted ==
    /\ pc = "iter" /\ buf = <<>> /\ ~more
    /\ pc' = "done"
    /\ logs' = IF op = "check_restore_status"
               THEN Append(logs, [line |-> "Done!", key |-> 0])
               ELSE logs
    /\ UNCHANGED <<op, hdr, cur, raised, restore_params, sentParams, echoed>>
    /\ UNCHANGED genVars
    /\ UNCHANGED restoreVars
    /\ UNCHANGED pollVars
    /\ UNCHANGED clientVars

(* --------------------- restore_objects_from_bucket --------------------- *)
\* the call up to the for loop: the parameters are merged, which raises
\* when the defaults are no mapping
CallRestoreObjects ==
    /\ op = "restore_objects" /\ pc = "start"
    /\ LET rp == merged_params(self.default_restore_params, given)
       IN  IF rp.type = "TypeError"
           THEN /\ raised' = "TypeError"
                /\ pc' = "raised"
                /\ UNCHANGED restore_params
           ELSE /\ restore_params' = rp
                /\ pc' = "iter"
                /\ UNCHANGED raised
    /\ UNCHANGED <<op, hdr, cur, logs, sentParams, echoed>>
    /\ UNCHANGED genVars
    /\ UNCHANGED restoreVars
    /\ UNCHANGED pollVars
    /\ UNCHANGED clientVars

\* the body of the for loop: restore_object(key, restore_params) and the
\* except clauses
RestoreNext ==
    /\ op = "restore_objects" /\ pc = "body"
    /\ LET rp == merged_params(self.default_restore_params, restore_params)
       IN
       IF rp.type = "TypeError"
       THEN /\ raised' = "TypeError"
            /\ pc' = "raised"
            /\ UNCHANGED <<logs, sentParams>>
            /\ UNCHANGED restoreVars
       ELSE
       \E said \in StoreRestoreOutcomes :
         LET r == restore_object(cur, said)
             b == BucketOf(r.exc)
         IN  /\ restoreReqs' = Append(restoreReqs, cur)
             /\ sentParams' = Append(sentParams, rp.items)
             /\ storeSaid' = [storeSaid EXCEPT ![cur] = said]
             /\ signal' = [signal EXCEPT ![cur] = r]
             /\ logs' = logs \o r.logged
             /\ IF b = NoneVal
                THEN /\ raised' = r.exc
                     /\ pc' = "raised"
                     /\ UNCHANGED results
                ELSE /\ results' = [results EXCEPT ![b] = Append(@, [Key |-> cur])]
                     /\ pc' = "iter"
                     /\ UNCHANGED raised
    /\ UNCHANGED <<op, hdr, cur, restore_params, echoed>>
    /\ UNCHANGED genVars
    /\ UNCHANGED pollVars
    /\ UNCHANGED clientVars

(* ------------- restore_object called on its own (the CLI) -------------- *)
\* one restore_object call whose exception, if any, reaches the caller
RestoreSingleObject ==
    /\ op = "restore_single_object" /\ pc = "start"
    /\ \E key \in Keys :
        LET rp == merged_params(self.default_restore_params, given)
        IN
        /\ cur' = key
        /\ IF rp.type = "TypeError"
           THEN /\ raised' = "TypeError"
                /\ pc' = "raised"
                /\ UNCHANGED <<logs, sentParams>>
                /\ UNCHANGED restoreVars
           ELSE
           \E said \in StoreRestoreOutcomes :
             LET r == restore_object(key, said)
             IN  /\ restoreReqs' = Append(restoreReqs, key)
                 /\ sentParams' = Append(sentParams, rp.items)
                 /\ storeSaid' = [storeSaid EXCEPT ![key] = said]
                 /\ signal' = [signal EXCEPT ![key] = r]
                 /\ logs' = logs \o r.logged
                 /\ raised' = r.exc
                 /\ pc' = IF r.exc = NoneVal THEN "done" ELSE "raised"
                 /\ UNCHANGED results
    /\ UNCHANGED <<op, hdr, restore_params, echoed>>
    /\ UNCHANGED genVars
    /\ UNCHANGED pollVars
    /\ UNCHANGED clientVars

(* ------------------------ are_objects_restored ------------------------- *)
CallAreObjectsRestored ==
    /\ op = "check_restore_status" /\ pc = "start"
    /\ pc' = "iter"
    /\ echoed' = Append(echoed, "Checking status of bucket.")
    /\ UNCHANGED <<op, hdr, cur, logs, raised, restore_params, sentParams>>
    /\ UNCHANGED genVars
    /\ UNCHANGED restoreVars
    /\ UNCHANGED pollVars
    /\ UNCHANGED clientVars

\* one pass of the while loop up to the sleep: is_object_restored(key), then
\* break or log
CheckStatus ==
    /\ op = "check_restore_status" /\ pc = "body"
    /\ LET restored == is_object_restored(hdr[cur])
       IN  /\ (~restored => nNot[cur] < MaxPolls)
           /\ lastCheck' = [key |-> cur, status |-> hdr[cur], restored |-> restored]
           /\ nChecks' = [nChecks EXCEPT ![cur] = @ + 1]
           /\ nNot' = [nNot EXCEPT ![cur] = IF restored THEN @ ELSE @ + 1]
           /\ logs' = IF restored THEN logs
                      ELSE Append(logs, [line |-> "Restore in progress...",
                                         key |-> 0])
           /\ pc' = IF AfterCheck(restored) = "iter" THEN "iter" ELSE "sleep"
    /\ UNCHANGED <<op, hdr, cur, nSleeps, raised, restore_params, sentParams, echoed>>
    /\ UNCHANGED genVars
    /\ UNCHANGED restoreVars
    /\ UNCHANGED clientVars

\* time.sleep(sleep_in_seconds) returns: back to the top of the while loop
Sleep ==
    /\ op = "check_restore_status" /\ pc = "sleep"
    /\ nSleeps' = [nSleeps EXCEPT ![cur] = @ + 1]
    /\ pc' = "body"
    /\ UNCHANGED <<op, hdr, cur, logs, raised, lastCheck, nChecks, nNot,
                   restore_params, sentParams, echoed>>
    /\ UNCHANGED genVars
    /\ UNCHANGED restoreVars
    /\ UNCHANGED clientVars

(* ------------------- is_object_restored (the CLI) ---------------------- *)
\* one status check, and its answer on the terminal
IsObjectRestored ==
    /\ op = "is_object_restored" /\ pc = "start"
    /\ \E key \in Keys :
        LET res == is_object_restored(hdr[key])
        IN  /\ cur' = key
            /\ lastCheck' = [key |-> key, status |-> hdr[key], restored |-> res]
            /\ nChecks' = [nChecks EXCEPT ![key] = @ + 1]
            /\ nNot' = [nNot EXCEPT ![key] = IF res THEN @ ELSE @ + 1]
            /\ echoed' = Append(echoed, IF res THEN "Object ready!"
                                               ELSE "Restore in progress...")
    /\ pc' = "done"
    /\ UNCHANGED <<op, hdr, logs, nSleeps, raised, restore_params, sentParams>>
    /\ UNCHANGED genVars
    /\ UNCHANGED restoreVars
    /\ UNCHANGED clientVars

(* ------------------------------ the store ------------------------------ *)
\* the store finishes the restore of an object
RestoreCompletes ==
    /\ op = "check_restore_status" /\ pc \in {"iter", "body", "sleep"}
    /\ \E k \in Keys :
         /\ hdr[k] = HdrOngoing
         /\ hdr' = [hdr EXCEPT ![k] = HdrRestored]
    /\ UNCHANGED <<op, pc, cur, logs, raised, restore_params, sentParams, echoed>>
    /\ UNCHANGED genVars
    /\ UNCHANGED restoreVars
    /\ UNCHANGED pollVars
    /\ UNCHANGED clientVars

Next ==
    \/ CallRestoreObjects
    \/ CallAreObjectsRestored
    \/ ListPage
    \/ NextObject
    \/ Exhausted
    \/ RestoreNext
    \/ RestoreSingleObject
    \/ CheckStatus
    \/ Sleep
    \/ IsObjectRestored
    \/ RestoreCompletes

Spec == Init /\ [][Next]_vars

\* the steps of the client's single thread: every call it makes returns or
\* raises, and the thread goes on; the store finishes a restore when it likes
ClientNext ==
    \/ CallRestoreObjects
    \/ CallAreObjectsRestored
    \/ ListPage
    \/ NextObject
    \/ Exhausted
    \/ RestoreNext
    \/ RestoreSingleObject
    \/ CheckStatus
    \/ Sleep
    \/ IsObjectRestored

\* the commands under the defaults of the command line (-q, -d, -t)
LiveInit ==
    /\ Init
    /\ ctor = cli(BucketName, PrefixName, TRUE)
    /\ given \in {PyNone, CliRestoreParams(3, "Standard")}

LiveSpec == LiveInit /\ [][Next]_vars /\ WF_vars(ClientNext)

(* ============================ properties =============================== *)
Listed == Concat([i \in 1..Len(responses) |-> GetContents(responses[i])])
KeysOf(objs) == {objs[i].Key : i \in 1..Len(objs)}
Bulk == op = "restore_objects"
Poll == op = "check_restore_status"

\* C1: the lister yields every object of every page the store returned exactly
\* once and in the store's order (nothing is lost, repeated or reordered at
\* any page boundary, empty pages included), and it stops after the first
\* page whose IsTruncated is false or absent: no response but the last is
\* such a page, and once the lister has stopped every request has its
\* response and every object of every page has been yielded.
C1_ListsEveryObjectOnce ==
    /\ yielded \o buf = Listed
    /\ \A i \in 1..Len(yielded) : yielded[i] = [Key |-> i]
    /\ \A i \in 1..Len(responses) :
          i < Len(responses) => responses[i].IsTruncated = "True"
    /\ Len(responses) <= Len(listReqs) /\ Len(listReqs) <= Len(responses) + 1
    /\ (pc = "done" /\ (Bulk \/ Poll)) =>
          /\ yielded = Listed
          /\ Len(listReqs) = Len(responses)
          /\ Len(responses) >= 1
          /\ responses[Len(responses)].IsTruncated \in {"False", NoneVal}

C1_Witness ==
    /\ pc = "done" /\ Bulk
    /\ Len(responses) = 2 /\ Len(yielded) = 3
    /\ Len(GetContents(responses[1])) = 1
    /\ responses[2].IsTruncated = NoneVal

\* C2: in the bulk restore a failed restore of one object never stops the
\* processing: when the operation has ended, every object the store listed
\* has received its own restore request.
C2_FailureNeverStops ==
    (Bulk /\ pc \in {"done", "raised"}) =>
        \A k \in KeysOf(Listed) : k \in Range(restoreReqs)

\* C3: when restore_objects_from_bucket returns, every listed object is in
\* exactly one of the three buckets, that bucket is the one of the outcome
\* restore_object signalled for it (the in-progress signal never lands in
\* error), and the three sizes add up to the number of listed objects.
Count(seq, x) == Cardinality({i \in 1..Len(seq) : seq[i] = x})
C3_BucketsPartitionListed ==
    (Bulk /\ pc = "done") =>
        /\ \A i \in 1..Len(Listed) :
             LET o == Listed[i]
                 e == signal[o.Key].exc
             IN  /\ Count(results.successful, o)
                      = (IF e = NoneVal THEN 1 ELSE 0)
                 /\ Count(results.restore_in_progress, o)
                      = (IF e = "RestoreInProgressException" THEN 1 ELSE 0)
                 /\ Count(results.error, o)
                      = (IF e = "RestoreException" THEN 1 ELSE 0)
                 /\ e \in {NoneVal, "RestoreInProgressException", "RestoreException"}
        /\ Len(results.successful) + Len(results.restore_in_progress)
             + Len(results.error) = Len(Listed)

C3_Witness ==
    /\ Bulk /\ pc = "done"
    /\ Len(results.successful) = 1
    /\ Len(results.restore_in_progress) = 1
    /\ Len(results.error) = 1

\* C4: a restore response that does not raise but has a status code > 400
\* makes restore_object raise RestoreException.
C4_BadStatusRaisesRestoreException ==
    \A k \in Keys :
        (storeSaid[k].kind = "response" /\ storeSaid[k].status > 400)
            => signal[k].exc = "RestoreException"

\* C5: on a client error of the store restore_object raises the generic
\* RestoreException when the code is exactly RestoreAlreadyInProgress and
\* RestoreInProgressException for every other code, in both cases with the
\* store's error payload; called on its own, that exception reaches the
\* caller.
C5_ClientErrorMapping ==
    \A k \in Keys :
        storeSaid[k].kind = "ClientError" =>
            /\ signal[k].exc = (IF storeSaid[k].code = "RestoreAlreadyInProgress"
                                THEN "RestoreException"
                                ELSE "RestoreInProgressException")
            /\ signal[k].response = storeSaid[k]
            /\ (op = "restore_single_object" => raised = signal[k].exc)

C5_Witness ==
    \E j, k \in Keys :
        /\ storeSaid[j].code = "RestoreAlreadyInProgress"
        /\ signal[j].exc = "RestoreException"
        /\ storeSaid[k].code = "AccessDenied"
        /\ signal[k].exc = "RestoreInProgressException"

\* C6: whatever the store does on a restore request (a client error of any
\* code, a response with any status code), no exception leaves
\* restore_objects_from_bucket; set aside here are the error of a failing
\* list request, which the lister passes on, and the TypeError of a client
\* whose defaults are no mapping, raised before the store is asked anything.
C6_NoExceptionEscapes ==
    Bulk => \/ raised = NoneVal
            \/ raised = "ClientError" /\ Len(listReqs) > Len(responses)
            \/ raised = "TypeError" /\ listReqs = <<>>

\* C7: the poller puts its status checks to one object at a time, in listing
\* order: an object is checked only once it has been yielded; after a
\* not-restored answer the poller stays with the same object; it holds
\* another object than the one it checked last only after a restored answer,
\* and then the very next one of the listing, not checked yet; and an object
\* is checked only after every object listed before it has answered restored.
C7_OneObjectAtATime ==
    Poll =>
        /\ \A k \in Keys : nChecks[k] > 0 => k \in KeysOf(yielded)
        /\ (lastCheck.key # 0 /\ ~lastCheck.restored) =>
              (cur = lastCheck.key /\ pc \in {"sleep", "body"})
        /\ (lastCheck.key # 0 /\ lastCheck.key # cur) =>
              /\ lastCheck.restored /\ nChecks[cur] = 0 /\ pc = "body"
              /\ Len(yielded) >= 2
              /\ yielded[Len(yielded)].Key = cur
              /\ yielded[Len(yielded) - 1].Key = lastCheck.key
        /\ \A q \in 1..Len(yielded) :
             nChecks[yielded[q].Key] > 0 =>
                \A p \in 1..(q - 1) :
                    nChecks[yielded[p].Key] = nNot[yielded[p].Key] + 1

C7_Witness ==
    /\ Poll /\ Len(yielded) >= 2
    /\ nNot[yielded[1].Key] = 2
    /\ nChecks[yielded[2].Key] > 0

\* C8: per object the poller sleeps once for every not-restored answer and
\* never otherwise, and an object it has finished with cost as many sleeps
\* as not-restored answers and one status check more than that.
\* the while loop of object k has been left
Finished(k) == k \in KeysOf(yielded) /\ ~(k = cur /\ pc \in {"body", "sleep"})
C8_SleepsAndChecks ==
    Poll =>
        \A k \in Keys :
            /\ nSleeps[k] <= nNot[k] /\ nNot[k] <= nSleeps[k] + 1
            /\ nNot[k] = nSleeps[k] + 1 => (cur = k /\ pc = "sleep")
            /\ nChecks[k] <= nNot[k] + 1
            /\ Finished(k) => /\ nSleeps[k] = nNot[k]
                               /\ nChecks[k] = nNot[k] + 1

C8_Witness ==
    /\ Poll /\ pc = "done"
    /\ \E j, k \in Keys :
         /\ Finished(j) /\ nChecks[j] = 1 /\ nSleeps[j] = 0
         /\ Finished(k) /\ nChecks[k] = 3 /\ nSleeps[k] = 2

\* C9 as stated: the poller never gets past an object that has no
\* restore-status header.
C9_HangsOnUnrequested ==
    Poll =>
        \A k \in KeysOf(yielded) : hdr[k] = NoneVal => ~Finished(k)

\* C9 amended: an object that has no restore-status header counts as
\* restored: the poller spends exactly one status check and no sleep on it
\* and moves on.
C9_UnrequestedCountsAsRestored ==
    Poll =>
        \A k \in Keys :
            hdr[k] = NoneVal =>
                /\ nNot[k] = 0 /\ nSleeps[k] = 0 /\ nChecks[k] <= 1
                /\ nChecks[k] = 1 => Finished(k)
                /\ (cur = k /\ pc = "sleep") => FALSE

C9_Witness ==
    /\ Poll /\ pc = "done"
    /\ \E k \in Keys : hdr[k] = NoneVal /\ nChecks[k] = 1 /\ Finished(k)

\* C10: in a run of the poller,
\*  - if no list request fails and every listed object at some time stops
\*    reporting ongoing-request="true", the poller reaches Done;
\*  - the poller is at Done only when every listed object has answered
\*    restored to a status check;
\*  - while a listed object reports ongoing-request="true" the poller is not
\*    at Done and no object listed after it has been checked, so that an
\*    object that reports it for ever keeps the poller from Done and from
\*    every later object for ever.
C10_TerminatesIffNoObjectStaysOngoing ==
    /\ (Poll /\ [](raised = NoneVal)
          /\ \A k \in Keys : <>[](k \in KeysOf(Listed) => hdr[k] # HdrOngoing))
         => <>(pc = "done")
    /\ []((Poll /\ pc = "done") =>
            \A k \in KeysOf(Listed) :
                nChecks[k] = nNot[k] + 1 /\ hdr[k] # HdrOngoing)
    /\ [](Poll =>
            \A k \in KeysOf(Listed) :
                hdr[k] = HdrOngoing =>
                    /\ pc # "done"
                    /\ \A j \in Keys : j > k => nChecks[j] = 0)

C10_Witness ==
    /\ Poll /\ pc = "done" /\ Len(yielded) >= 2
    /\ \E k \in Keys : nNot[k] = MaxPolls /\ hdr[k] = HdrRestored

\* C11: a status check answers not-restored exactly when the x-amz-restore
\* header it read is ongoing-request="true", and restored when the header is
\* absent or has any other value; the command prints the matching line.
C11_RestoredUnlessOngoingTrue ==
    lastCheck.key # 0 =>
        /\ lastCheck.status = HdrOngoing => ~lastCheck.restored
        /\ lastCheck.status = NoneVal => lastCheck.restored
        /\ lastCheck.status \in {HdrRestored} \cup OtherHdrValues => lastCheck.restored
        /\ ~lastCheck.restored => lastCheck.status = HdrOngoing
        /\ op = "is_object_restored" =>
              echoed = << IF lastCheck.status = HdrOngoing
                          THEN "Restore in progress..." ELSE "Object ready!" >>

C11_Witness ==
    /\ Poll
    /\ lastCheck.key # 0 /\ lastCheck.restored /\ lastCheck.status = HdrRestored
    /\ nNot[lastCheck.key] >= 1

\* C12: when the store's restore call returns without raising,
\* restore_object returns normally exactly when the status code is <= 400;
\* in the bulk restore the object then is in the bucket successful, an
\* object answered with status 400 included.
C12_ReturnsIffStatusAtMost400 ==
    \A k \in Keys :
        storeSaid[k].kind = "response" =>
            /\ (signal[k].exc = NoneVal) <=> (storeSaid[k].status <= 400)
            /\ (Bulk /\ storeSaid[k].status <= 400) =>
                  /\ Count(results.successful, [Key |-> k]) = 1
                  /\ Count(results.restore_in_progress, [Key |-> k]) = 0
                  /\ Count(results.error, [Key |-> k]) = 0

C12_Witness ==
    /\ Bulk /\ pc = "done"
    /\ \E k \in Keys :
         /\ storeSaid[k].kind = "response" /\ storeSaid[k].status = 400
         /\ signal[k].exc = NoneVal
         /\ Count(results.successful, [Key |-> k]) = 1

\* C13: a list request that the store fails is made once and is the last
\* one: whenever a request is without its response, the error has left the
\* operation, that request is the only one without response, and every
\* object of the pages before has been yielded.
C13_ListErrorPropagates ==
    Len(listReqs) > Len(responses) =>
        /\ pc = "raised" /\ raised = "ClientError"
        /\ Len(listReqs) = Len(responses) + 1
        /\ yielded = Listed /\ buf = <<>>

C13_Witness ==
    /\ Bulk /\ pc = "raised" /\ raised = "ClientError"
    /\ Len(listReqs) = 2 /\ Len(responses) = 1 /\ Len(yielded) >= 2

\* C14: every restore_object call that got an answer from the store has
\* logged exactly one line, the one of its outcome, before it returned or
\* raised.
C14_OneLogLinePerOutcome ==
    \A k \in Keys :
        storeSaid[k].kind # NoneVal =>
            /\ Len(signal[k].logged) = 1
            /\ \E i \in 1..Len(logs) : logs[i] = signal[k].logged[1]
            /\ signal[k].logged[1].key = k
            /\ signal[k].logged[1].line =
                  (IF storeSaid[k].kind = "response" /\ storeSaid[k].status <= 400
                   THEN "SUCCESS Restored object"
                   ELSE IF storeSaid[k].kind = "ClientError"
                           /\ storeSaid[k].code # "RestoreAlreadyInProgress"
                   THEN "FAILED object restore in progress"
                   ELSE "FAILED object restore failed")

\* C15: every RestoreRequest sent to the store has the keys of the client's
\* defaults and of the restore_params of the call, each with the value of the
\* call where the call has the key and with the default otherwise (whole
\* top-level values, nothing merged below), in the bulk restore (merged
\* twice) as in a single restore_object call (merged once).
C15_ParamsMerged ==
    LET d == self.default_restore_params.items
        g == given.items
    IN  /\ \A i \in 1..Len(sentParams) :
              /\ DOMAIN sentParams[i] = DOMAIN d \cup DOMAIN g
              /\ \A k \in DOMAIN sentParams[i] :
                    sentParams[i][k] = IF k \in DOMAIN g THEN g[k] ELSE d[k]
        /\ Len(sentParams) = Len(restoreReqs)
        /\ (Bulk /\ restore_params # PyNone) =>
              /\ DOMAIN restore_params.items = DOMAIN d \cup DOMAIN g
              /\ \A k \in DOMAIN restore_params.items :
                    restore_params.items[k] = IF k \in DOMAIN g THEN g[k] ELSE d[k]

C15_Witness ==
    /\ Bulk /\ ctor.built = "direct" /\ Len(sentParams) >= 2
    /\ "Description" \in DOMAIN sentParams[2]
    /\ "Days" \in DOMAIN sentParams[2]
    /\ sentParams[2].GlacierJobParameters = EmptyItems

\* C16: a client has a console handler unless quiet is requested: none when
\* the CLI builds it with quiet set, none when it is built with verbose false
\* and no logger of the caller, one when quiet is not requested (and the
\* caller brings no logger).
C16_ConsoleHandlerUnlessQuiet ==
    /\ (ctor.built = "cli" /\ ctor.quiet) => ~self.console_handler
    /\ (ctor.built = "direct" /\ ~ctor.verbose /\ ctor.progress_logger = NoneVal)
          => ~self.console_handler
    /\ (ctor.built = "cli" /\ ~ctor.quiet) => self.console_handler
    /\ (ctor.built = "direct" /\ ctor.verbose /\ ctor.progress_logger = NoneVal)
          => self.console_handler

\* C17: in the bulk restore a list request is sent only when every object
\* of the pages before has had its restore request; so when a list request
\* fails, every object listed so far has had its restore request, and the
\* operation ends with the error, never with the results.
C17_ListingInterleaved ==
    Bulk =>
        /\ \A i \in 1..Len(responses) :
              i < Len(listReqs) =>
                  \A k \in KeysOf(GetContents(responses[i])) :
                      k \in Range(restoreReqs)
        /\ raised = "ClientError" =>
              /\ \A k \in KeysOf(Listed) : k \in Range(restoreReqs)
              /\ Len(restoreReqs) = Len(Listed)
        /\ raised # NoneVal => pc = "raised"

C17_Witness ==
    /\ Bulk /\ raised = "ClientError" /\ pc = "raised"
    /\ Len(listReqs) = 2 /\ Len(restoreReqs) >= 2

C19_QuietTouchesOnlyLogging ==
    (ctor.built = "cli" /\ op \in {"restore_single_object", "restore_objects"}
       /\ pc \in {"done", "raised"}) =>
        /\ self.default_restore_params = PyDict(EmptyItems)
        /\ raised # "TypeError"
        /\ \A i \in 1..Len(sentParams) : sentParams[i] = given.items
        /\ op = "restore_single_object" => Len(sentParams) = 1

====
